---- MODULE Spec2Model ----
(***************************************************************************)
(* The substitution ADT of the L5 type checker                             *)
(* (src/src/L5/L5-substitution-adt.ts): makeSub, makeEmptySub,             *)
(* checkNoOccurrence, subGet, applySub, combineSub, extendSub.             *)
(*                                                                         *)
(* The functions are pure.  The state is what a caller (the unifier) holds *)
(* while it uses the ADT: the substitution sub it has built so far, which  *)
(* it obtained only from the public constructors, and the call it has just *)
(* made (the arguments and the value returned).                            *)
(***************************************************************************)
EXTENDS Integers, Sequences, FiniteSets, TLC

VARIABLES sub, call

vars == <<sub, call>>

(***************************************************************************)
(* Bounds of the model.                                                    *)
(***************************************************************************)
\* the names of the type variables the caller uses
TVarNames == {"T1", "T2"}
\* the number of leaves (atomic types and type variables) of a type
\* expression passed in, of the tes of a list passed to makeSub taken
\* together, and of the tes of a substitution the caller keeps
MaxSize == 2

(***************************************************************************)
(* Type expressions (./TExp): atomic, type variable, procedure.            *)
(***************************************************************************)
makeNumTExp == [tag |-> "NumTExp"]

makeTVar(v) == [tag |-> "TVar", var |-> v]

makeProcTExp(paramTEs, returnTE) ==
    [tag |-> "ProcTExp", paramTEs |-> paramTEs, returnTE |-> returnTE]

isTVar(x) == x.tag = "TVar"

isAtomicTExp(x) == x.tag \in {"NumTExp", "BoolTExp", "StrTExp", "VoidTExp"}

isProcTExp(x) == x.tag = "ProcTExp"

eqTVar(v1, v2) == isTVar(v1) /\ isTVar(v2) /\ v1.var = v2.var

(***************************************************************************)
(* ../shared/result: Ok | Failure, bind.                                   *)
(***************************************************************************)
makeOk(value) == [tag |-> "Ok", value |-> value]

makeFailure(message) == [tag |-> "Failure", message |-> message]

isOk(r) == r.tag = "Ok"

isFailure(r) == r.tag = "Failure"

(***************************************************************************)
(* ../shared/list                                                          *)
(***************************************************************************)
isEmpty(l) == Len(l) = 0

first(l) == Head(l)

rest(l) == Tail(l)

(***************************************************************************)
(* The substitution ADT.                                                   *)
(***************************************************************************)
Sub(vs, tes) == [tag |-> "Sub", vars |-> vs, tes |-> tes]

makeEmptySub == Sub(<<>>, <<>>)

isEmptySub(s) == s.tag = "Sub" /\ isEmpty(s.vars) /\ isEmpty(s.tes)

\* The message of the occur-check failure names the variable and the whole
\* expression it was to be bound to.
OccurError(tvar, te) == <<"Occur check error - circular sub", tvar.var, te>>

BadTExpError(e, te) == <<"Bad type expression", e, te>>

RECURSIVE check(_, _, _)
RECURSIVE checkAll(_, _, _)
\* mapResult(check, es): the first Failure, left to right, else Ok
checkAll(tvar, te, es) ==
    IF isEmpty(es) THEN makeOk(TRUE)
    ELSE LET r == check(tvar, te, first(es))
         IN IF isFailure(r) THEN r ELSE checkAll(tvar, te, rest(es))

check(tvar, te, e) ==
    IF isTVar(e)
    THEN (IF e.var = tvar.var THEN makeFailure(OccurError(tvar, te)) ELSE makeOk(TRUE))
    ELSE IF isAtomicTExp(e) THEN makeOk(TRUE)
    ELSE IF isProcTExp(e)
    THEN LET r == checkAll(tvar, te, e.paramTEs)
         IN IF isFailure(r) THEN r ELSE check(tvar, te, e.returnTE)
    ELSE makeFailure(BadTExpError(e, te))

\* a check that looks at the top of te only
checkNoOccurrence_shallow(tvar, te) ==
    IF isTVar(te) /\ te.var = tvar.var THEN makeFailure(OccurError(tvar, te))
    ELSE makeOk(TRUE)

checkNoOccurrence(tvar, te) == check(tvar, te, te)

RECURSIVE checkNoOccurrences(_, _)
checkNoOccurrences(vs, tes) ==
    IF Len(vs) = 0 THEN makeOk(TRUE)
    ELSE LET r == checkNoOccurrence(vs[1], tes[1])
         IN IF isFailure(r) THEN r ELSE checkNoOccurrences(Tail(vs), Tail(tes))

makeSub(vs, tes) ==
    LET r == checkNoOccurrences(vs, tes)
    IN IF isFailure(r) THEN r ELSE makeOk(Sub(vs, tes))

RECURSIVE lookup(_, _, _)
\* a lookup that tests the name of the head only
lookup_headOnly(vs, tes, v) ==
    IF isEmpty(vs) THEN v
    ELSE IF eqTVar(first(vs), v) THEN first(tes)
    ELSE v

lookup(vs, tes, v) ==
    IF isEmpty(vs) THEN v
    ELSE IF eqTVar(first(vs), v) THEN first(tes)
    ELSE lookup(rest(vs), rest(tes), v)

subGet(s, v) == lookup(s.vars, s.tes, v)

RECURSIVE applySub(_, _)
applySub(s, te) ==
    IF isEmptySub(s) THEN te
    ELSE IF isAtomicTExp(te) THEN te
    ELSE IF isTVar(te) THEN subGet(s, te)
    ELSE IF isProcTExp(te)
    THEN makeProcTExp([i \in 1..Len(te.paramTEs) |-> applySub(s, te.paramTEs[i])],
                      applySub(s, te.returnTE))
    ELSE te

varNames(vs) == {vs[i].var : i \in 1..Len(vs)}

\* an extension that leaves the existing tes as they are
extendSub_noRewrite(s, v, te) ==
    LET r == makeSub(<<v>>, <<te>>)
    IN IF isFailure(r) THEN r
       ELSE IF v.var \in varNames(s.vars)
            THEN makeSub(s.vars, s.tes)
            ELSE makeSub(<<v>> \o s.vars, <<te>> \o s.tes)

\* an extension that does not check the rewritten lists again
extendSub_noRecheck(s, v, te) ==
    LET r == makeSub(<<v>>, <<te>>)
    IN IF isFailure(r) THEN r
       ELSE LET sub2 == r.value
                updatedTEs == [i \in 1..Len(s.tes) |-> applySub(sub2, s.tes[i])]
            IN IF v.var \in varNames(s.vars)
               THEN makeOk(Sub(s.vars, updatedTEs))
               ELSE makeOk(Sub(<<v>> \o s.vars, <<te>> \o updatedTEs))

\* an extension that always adds the pair in front
extendSub_alwaysPrepend(s, v, te) ==
    LET r == makeSub(<<v>>, <<te>>)
    IN IF isFailure(r) THEN r
       ELSE LET sub2 == r.value
                updatedTEs == [i \in 1..Len(s.tes) |-> applySub(sub2, s.tes[i])]
            IN makeSub(<<v>> \o s.vars, <<te>> \o updatedTEs)

\* an extension that overwrites the binding v already has
extendSub_replace(s, v, te) ==
    LET r == makeSub(<<v>>, <<te>>)
    IN IF isFailure(r) THEN r
       ELSE LET sub2 == r.value
                updatedTEs == [i \in 1..Len(s.tes) |-> applySub(sub2, s.tes[i])]
            IN IF v.var \in varNames(s.vars)
               THEN makeSub(s.vars, [i \in 1..Len(s.tes) |->
                                        IF s.vars[i].var = v.var THEN te ELSE updatedTEs[i]])
               ELSE makeSub(<<v>> \o s.vars, <<te>> \o updatedTEs)

extendSub(s, v, te) ==
    LET r == makeSub(<<v>>, <<te>>)
    IN IF isFailure(r) THEN r
       ELSE LET sub2 == r.value
                updatedTEs == [i \in 1..Len(s.tes) |-> applySub(sub2, s.tes[i])]
            IN IF v.var \in varNames(s.vars)
               THEN makeSub(s.vars, updatedTEs)
               ELSE makeSub(<<v>> \o s.vars, <<te>> \o updatedTEs)

RECURSIVE combine(_, _, _)
\* a composition that skips a pair whose extension fails
combine_skipFailure(s, vs, tes) ==
    IF isEmpty(vs) THEN makeOk(s)
    ELSE LET r == extendSub(s, first(vs), first(tes))
         IN IF isFailure(r) THEN combine(s, rest(vs), rest(tes))
            ELSE combine(r.value, rest(vs), rest(tes))

combine(s, vs, tes) ==
    IF isEmpty(vs) THEN makeOk(s)
    ELSE LET r == extendSub(s, first(vs), first(tes))
         IN IF isFailure(r) THEN r ELSE combine(r.value, rest(vs), rest(tes))

\* a composition that folds even when one side is empty
combineSub_alwaysFold(sub1, sub2) == combine(sub1, sub2.vars, sub2.tes)

combineSub(sub1, sub2) ==
    IF isEmptySub(sub1) THEN makeOk(sub2)
    ELSE IF isEmptySub(sub2) THEN makeOk(sub1)
    ELSE combine(sub1, sub2.vars, sub2.tes)

(***************************************************************************)
(* What the caller passes in: the type variables, the atomic type number,  *)
(* and procedure types with at least one parameter, of up to MaxSize       *)
(* leaves.                                                                 *)
(***************************************************************************)
TVars == {makeTVar(n) : n \in TVarNames}

Leaves == TVars \cup {makeNumTExp}

RECURSIVE TExpsOfSize(_)
RECURSIVE TExpListsOfSize(_)
\* the non-empty lists of type expressions with n leaves together
TExpListsOfSize(n) ==
    UNION {{<<e>> \o l : e \in TExpsOfSize(k),
                         l \in (IF k = n THEN {<<>>} ELSE TExpListsOfSize(n - k))} :
           k \in 1..n}

TExpsOfSize(n) ==
    IF n = 1 THEN Leaves
    ELSE UNION {{makeProcTExp(ps, r) : ps \in TExpListsOfSize(n - k), r \in TExpsOfSize(k)} :
                k \in 1..(n - 1)}

TExps == UNION {TExpsOfSize(n) : n \in 1..MaxSize}

\* lists of distinct type variables (pre-condition of makeSub: no repetitions)
VarLists ==
    {vs \in UNION {[1..n -> TVars] : n \in 0..Cardinality(TVars)} :
        \A i, j \in 1..Len(vs) : vs[i] = vs[j] => i = j}

\* the lists of type expressions as long as vs (pre-condition of makeSub)
TExpListsFor(vs) ==
    IF Len(vs) = 0 THEN {<<>>}
    ELSE {l \in UNION {TExpListsOfSize(n) : n \in 1..MaxSize} : Len(l) = Len(vs)}

RECURSIVE size(_)
RECURSIVE sizeAll(_)
sizeAll(tes) == IF Len(tes) = 0 THEN 0 ELSE size(Head(tes)) + sizeAll(Tail(tes))

size(te) == IF isProcTExp(te) THEN sizeAll(te.paramTEs) + size(te.returnTE) ELSE 1

\* a substitution the caller keeps
Fits(s) == sizeAll(s.tes) <= MaxSize

\* the substitutions makeSub returns for the lists above: the second
\* argument of combineSub
MadeSubs ==
    {r.value : r \in {q \in UNION {{makeSub(vs, tes) : tes \in TExpListsFor(vs)} :
                                   vs \in VarLists} : isOk(q)}}

NoTVar == makeTVar("none")

NoCall ==
    [op |-> "none", sub |-> makeEmptySub, arg |-> makeEmptySub, v |-> NoTVar,
     te |-> makeNumTExp, vars |-> <<>>, tes |-> <<>>, res |-> makeOk(TRUE)]

Constructors == {"makeEmptySub", "makeSub", "extendSub", "combineSub"}

Init ==
    /\ sub = makeEmptySub
    /\ call = NoCall

MakeEmptySub ==
    /\ call.op = "none"
    /\ call' = [NoCall EXCEPT !.op = "makeEmptySub", !.res = makeOk(makeEmptySub)]
    /\ UNCHANGED sub

MakeSub ==
    /\ call.op = "none"
    /\ \E vs \in VarLists : \E tes \in TExpListsFor(vs) :
          call' = [NoCall EXCEPT !.op = "makeSub", !.vars = vs, !.tes = tes,
                                 !.res = makeSub(vs, tes)]
    /\ UNCHANGED sub

SubGet ==
    /\ call.op = "none"
    /\ \E v \in TVars :
          call' = [NoCall EXCEPT !.op = "subGet", !.sub = sub, !.v = v,
                                 !.res = subGet(sub, v)]
    /\ UNCHANGED sub

ApplySub ==
    /\ call.op = "none"
    /\ \E te \in TExps :
          call' = [NoCall EXCEPT !.op = "applySub", !.sub = sub, !.te = te,
                                 !.res = applySub(sub, te)]
    /\ UNCHANGED sub

ExtendSub ==
    /\ call.op = "none"
    /\ \E v \in TVars : \E te \in TExps :
          call' = [NoCall EXCEPT !.op = "extendSub", !.sub = sub, !.v = v, !.te = te,
                                 !.res = extendSub(sub, v, te)]
    /\ UNCHANGED sub

CombineSub ==
    /\ call.op = "none"
    /\ \E arg \in MadeSubs :
          call' = [NoCall EXCEPT !.op = "combineSub", !.sub = sub, !.arg = arg,
                                 !.res = combineSub(sub, arg)]
    /\ UNCHANGED sub

\* the caller goes on with the substitution a constructor returned, or with
\* the one it had when the call failed
Take ==
    /\ call.op # "none"
    /\ sub' = IF call.op \in Constructors /\ isOk(call.res) /\ Fits(call.res.value)
              THEN call.res.value
              ELSE sub
    /\ call' = NoCall

Next ==
    \/ MakeEmptySub
    \/ MakeSub
    \/ SubGet
    \/ ApplySub
    \/ ExtendSub
    \/ CombineSub
    \/ Take

Spec == Init /\ [][Next]_vars

(***************************************************************************)
(* Properties.                                                             *)
(***************************************************************************)
RECURSIVE tvarsOf(_)
\* the names of the type variables that occur in te
tvarsOf(te) ==
    IF isTVar(te) THEN {te.var}
    ELSE IF isProcTExp(te)
    THEN UNION {tvarsOf(te.paramTEs[i]) : i \in 1..Len(te.paramTEs)} \cup tvarsOf(te.returnTE)
    ELSE {}

occurs(v, te) == v.var \in tvarsOf(te)

Min(S) == CHOOSE k \in S : \A j \in S : k <= j

\* the substitutions in the state: the caller's, and the one just returned
Held ==
    {sub} \cup (IF call.op \in Constructors /\ isOk(call.res) THEN {call.res.value} ELSE {})

Extended == call.op = "extendSub" /\ isOk(call.res)

Combined == call.op = "combineSub" /\ isOk(call.res)

Idempotent(s) == \A x \in TExps : applySub(s, applySub(s, x)) = applySub(s, x)

\* C1: when combineSub(s1, s2) succeeds with r, applying r to any type
\* expression e gives the same as applying s1 and then s2.
C1_CompositionLaw ==
    Combined =>
        \A e \in TExps :
            applySub(call.res.value, e) = applySub(call.arg, applySub(call.sub, e))

\* C2 as stated: extendSub(s, v, e) fails if and only if v occurs in e,
\* whatever s holds.
C2_FailsIffOccurs ==
    call.op = "extendSub" => (isFailure(call.res) <=> occurs(call.v, call.te))

\* a binding x -> t of s that the new pair closes into a cycle: v occurs in t
\* and x occurs in e
ClosesCycle(s, v, te) ==
    \E i \in 1..Len(s.vars) : occurs(v, s.tes[i]) /\ occurs(s.vars[i], te)

\* C2 amended: extendSub(s, v, e) fails, with an occur-check failure, if and
\* only if v occurs in e or some binding x -> t of s has v in t and x in e;
\* when v occurs in e the failure names v and e.
C2_FailsIffOccursOrCycle ==
    call.op = "extendSub" =>
        /\ isFailure(call.res) <=>
              (occurs(call.v, call.te) \/ ClosesCycle(call.sub, call.v, call.te))
        /\ isFailure(call.res) => call.res.message[1] = "Occur check error - circular sub"
        /\ occurs(call.v, call.te) => call.res = makeFailure(OccurError(call.v, call.te))

C2_Witness ==
    /\ call.op = "extendSub"
    /\ isFailure(call.res)
    /\ ~occurs(call.v, call.te)
    /\ ClosesCycle(call.sub, call.v, call.te)

\* C3 as stated: once s = extendSub(s0, v, e) succeeds, applying s twice to
\* any x gives the same as applying it once.
C3_IdempotentAfterExtend == Extended => Idempotent(call.res.value)

\* C3 amended: the same, provided s0 is itself idempotent and no variable
\* that s0 binds occurs in e.
C3_IdempotentFromIdempotent ==
    (/\ Extended
     /\ Idempotent(call.sub)
     /\ tvarsOf(call.te) \cap varNames(call.sub.vars) = {})
        => Idempotent(call.res.value)

C3_Witness ==
    /\ Extended
    /\ Idempotent(call.sub)
    /\ tvarsOf(call.te) \cap varNames(call.sub.vars) = {}
    /\ \E i \in 1..Len(call.sub.tes) : occurs(call.v, call.sub.tes[i])
    /\ Len(call.res.value.vars) = 2

\* C4 as stated: after a successful extendSub(sub, v, e) the result binds
\* v to e, whether or not v was bound in sub.
C4_ResultBindsVToE == Extended => subGet(call.res.value, call.v) = call.te

\* C4 amended: when v was unbound in sub the pair is put in front and the
\* result binds v to e; when v was bound in sub the list of variables is
\* unchanged and v keeps the binding it had.
C4_AddsOrKeeps ==
    Extended =>
        IF call.v.var \in varNames(call.sub.vars)
        THEN /\ call.res.value.vars = call.sub.vars
             /\ subGet(call.res.value, call.v) = subGet(call.sub, call.v)
        ELSE /\ call.res.value.vars = <<call.v>> \o call.sub.vars
             /\ call.res.value.tes[1] = call.te
             /\ subGet(call.res.value, call.v) = call.te

C4_Witness ==
    /\ Extended
    /\ call.v.var \in varNames(call.sub.vars)
    /\ subGet(call.sub, call.v) # call.te
    /\ Len(call.sub.vars) = 2

\* C5: subGet(s, v) is the expression at the first position of s.vars that
\* has the name of v, and v itself when no position has it.
C5_LookupByName ==
    call.op = "subGet" =>
        LET at == {i \in 1..Len(call.sub.vars) : call.sub.vars[i].var = call.v.var}
        IN call.res = IF at = {} THEN call.v ELSE call.sub.tes[Min(at)]

C5_Witness ==
    /\ call.op = "subGet"
    /\ Len(call.sub.vars) = 2
    /\ call.sub.vars[2].var = call.v.var
    /\ call.res = call.sub.tes[2]

\* C6: combineSub returns sub2 as it is when sub1 is empty and sub1 as it is
\* when sub2 is empty, and does not fail.
C6_IdentityLaw ==
    call.op = "combineSub" =>
        /\ isEmptySub(call.sub) => call.res = makeOk(call.arg)
        /\ isEmptySub(call.arg) => call.res = makeOk(call.sub)

C6_Witness ==
    /\ call.op = "combineSub"
    /\ isEmptySub(call.sub)
    /\ Len(call.arg.vars) = 2
    /\ call.res = makeOk(call.arg)
    /\ combine(call.sub, call.arg.vars, call.arg.tes) # makeOk(call.arg)

\* C7: in every substitution the constructors return, no variable occurs in
\* the expression it is bound to.
C7_InvariantC ==
    \A s \in Held : \A i \in 1..Len(s.vars) : ~occurs(s.vars[i], s.tes[i])

C7_Witness ==
    /\ call.op = "makeSub"
    /\ isOk(call.res)
    /\ Len(call.res.value.vars) = 2
    /\ occurs(call.res.value.vars[1], call.res.value.tes[2])

\* C8: no name appears twice in the vars of a substitution the constructors
\* return, and its vars and tes are equally long.
C8_InvariantA ==
    \A s \in Held :
        /\ Len(s.vars) = Len(s.tes)
        /\ \A i, j \in 1..Len(s.vars) : s.vars[i].var = s.vars[j].var => i = j

C8_Witness ==
    /\ Extended
    /\ call.v.var \in varNames(call.sub.vars)
    /\ Len(call.res.value.vars) = 2
    /\ sub = call.sub

RECURSIVE FoldExtend(_, _, _)
\* extendSub folded over the first k bindings of b, starting from a
FoldExtend(a, b, k) ==
    IF k = 0 THEN makeOk(a)
    ELSE LET p == FoldExtend(a, b, k - 1)
         IN IF isFailure(p) THEN p ELSE extendSub(p.value, b.vars[k], b.tes[k])

\* the bindings of b at which the fold has failed
FailedAt(a, b) == {k \in 1..Len(b.vars) : isFailure(FoldExtend(a, b, k))}

\* C9: for non-empty sub1 and sub2, combineSub is extendSub folded over the
\* bindings of sub2 in order, starting from sub1; it returns the failure of
\* the first extension that fails and no substitution.
C9_FailFastFold ==
    (call.op = "combineSub" /\ ~isEmptySub(call.sub) /\ ~isEmptySub(call.arg)) =>
        LET a == call.sub
            b == call.arg
        IN IF FailedAt(a, b) = {}
           THEN isOk(call.res) /\ call.res = FoldExtend(a, b, Len(b.vars))
           ELSE LET k == Min(FailedAt(a, b))
                IN /\ isFailure(call.res)
                   /\ call.res = extendSub(FoldExtend(a, b, k - 1).value, b.vars[k], b.tes[k])

C9_Witness ==
    /\ call.op = "combineSub"
    /\ ~isEmptySub(call.sub)
    /\ Len(call.arg.vars) = 2
    /\ FailedAt(call.sub, call.arg) = {2}
    /\ isFailure(call.res)

\* C10: after a successful extendSub(sub, v, e) the bindings sub had are
\* there in the same order, each with {v -> e} applied to its expression, and
\* v occurs in no expression of the result.
C10_SubstitutedAway ==
    Extended =>
        LET r == call.res.value
            old == call.sub
            k == Len(r.vars) - Len(old.vars)
        IN /\ k \in {0, 1}
           /\ \A i \in 1..Len(old.vars) :
                 /\ r.vars[i + k] = old.vars[i]
                 /\ r.tes[i + k] = applySub(Sub(<<call.v>>, <<call.te>>), old.tes[i])
           /\ \A j \in 1..Len(r.tes) : ~occurs(call.v, r.tes[j])

C10_Witness ==
    /\ Extended
    /\ Len(call.sub.vars) = 1
    /\ Len(call.res.value.vars) = 2
    /\ occurs(call.v, call.sub.tes[1])
    /\ isProcTExp(call.res.value.tes[2])

====
